---- MODULE Spec2Model ----
(***************************************************************************)
(* build_temp_cache.py: load the station list, fetch one daily-value       *)
(* temperature series per eligible station, write the static cache.        *)
(*                                                                         *)
(* JSON values are tagged records.  A string is a sequence of one-character *)
(* strings, so that slicing (dt[:10]) and float() work on its characters.  *)
(* A number is an integer count of hundredths (5.5 is 550).                *)
(***************************************************************************)
EXTENDS Integers, Sequences, FiniteSets, TLC

VARIABLES text, stations, i, pc, data, labels, temps, cache, no_dv, out, events

vars == <<text, stations, i, pc, data, labels, temps, cache, no_dv, out, events>>

\* ------------------------------------------------------------------ bounds
MaxStations == 2
MaxObs == 2

\* ------------------------------------------------------------- JSON values
JNull == [t |-> "null"]
JStr(s) == [t |-> "str", s |-> s]
JNum(n) == [t |-> "num", n |-> n]
JArr(a) == [t |-> "arr", a |-> a]
JObj(o) == [t |-> "obj", o |-> o]

EmptyMap == [k \in {} |-> JNull]
EmptyObj == JObj(EmptyMap)
EmptyArr == JArr(<<>>)

\* Python truthiness of a decoded JSON value.
Truthy(v) ==
    CASE v.t = "null" -> FALSE
      [] v.t = "str" -> v.s # <<>>
      [] v.t = "num" -> v.n # 0
      [] v.t = "arr" -> v.a # <<>>
      [] v.t = "obj" -> DOMAIN v.o # {}

\* a or b
PyOr(a, b) == IF Truthy(a) THEN a ELSE b

\* d.get(k) on a dict: None when the key is absent.
Get(d, k) == IF k \in DOMAIN d.o THEN d.o[k] ELSE JNull

\* d.get(k, dflt)
GetDefault(d, k, dflt) == IF k \in DOMAIN d.o THEN d.o[k] ELSE dflt

\* s[:n] on a sequence
Take(s, n) == SubSeq(s, 1, IF Len(s) < n THEN Len(s) ELSE n)

\* ------------------------------------------------------------------ float()
Digits == {"0", "1", "2", "3", "4", "5", "6", "7", "8", "9"}

DigitVal(c) ==
    CASE c = "0" -> 0 [] c = "1" -> 1 [] c = "2" -> 2 [] c = "3" -> 3
      [] c = "4" -> 4 [] c = "5" -> 5 [] c = "6" -> 6 [] c = "7" -> 7
      [] c = "8" -> 8 [] c = "9" -> 9

RECURSIVE LStrip(_)
LStrip(s) == IF s # <<>> /\ Head(s) = " " THEN LStrip(Tail(s)) ELSE s

RECURSIVE RStrip(_)
RStrip(s) ==
    IF s # <<>> /\ s[Len(s)] = " " THEN RStrip(SubSeq(s, 1, Len(s) - 1)) ELSE s

\* str.strip()
Strip(s) == RStrip(LStrip(s))

\* value of a run of digits
RECURSIVE DigitsVal(_)
DigitsVal(s) ==
    IF s = <<>> THEN 0 ELSE DigitsVal(SubSeq(s, 1, Len(s) - 1)) * 10 + DigitVal(s[Len(s)])

AllDigits(s) == \A k \in 1..Len(s) : s[k] \in Digits

\* the fraction digits as hundredths (inputs carry at most two of them)
FracVal(s) ==
    IF Len(s) = 0 THEN 0
    ELSE IF Len(s) = 1 THEN DigitVal(s[1]) * 10
    ELSE DigitVal(s[1]) * 10 + DigitVal(s[2])

\* float(s) for a string s: surrounding whitespace is ignored, then an optional
\* sign, then digits with at most one point and at least one digit.  Anything
\* else is a ValueError (ok = FALSE).  Exponents, inf, nan and underscores do
\* not occur in the inputs of this model.
ParseFloat(s) ==
    LET b == Strip(s)
        signed == b # <<>> /\ Head(b) \in {"+", "-"}
        u == IF signed THEN Tail(b) ELSE b
        dots == {k \in 1..Len(u) : u[k] = "."}
        ip == IF dots = {} THEN u ELSE SubSeq(u, 1, (CHOOSE k \in dots : TRUE) - 1)
        fp == IF dots = {} THEN <<>> ELSE SubSeq(u, (CHOOSE k \in dots : TRUE) + 1, Len(u))
        good == /\ Cardinality(dots) <= 1
                /\ AllDigits(ip) /\ AllDigits(fp)
                /\ Len(ip) + Len(fp) >= 1
        mag == DigitsVal(ip) * 100 + FracVal(fp)
    IN  IF good
        THEN [ok |-> TRUE, n |-> IF signed /\ Head(b) = "-" THEN 0 - mag ELSE mag]
        ELSE [ok |-> FALSE, n |-> 0]

\* ---------------------------------------------------------------- fetch_dv
Raised == [raised |-> TRUE, labels |-> <<>>, temps |-> <<>>]
Returned(ls, ts) == [raised |-> FALSE, labels |-> ls, temps |-> ts]

\* val in (None, "", " ")
IsBlank(val) == val \in {JNull, JStr(<<>>), JStr(<<" ">>)}

\* The for loop over vals (lines 47-58), from position k with the lists built
\* so far.  A step that raises anything but ValueError ends fetch_dv.
RECURSIVE ObsLoop(_, _, _, _)
ObsLoop(vals, k, ls, ts) ==
    IF k > Len(vals) THEN Returned(ls, ts)
    ELSE LET v == vals[k] IN
        IF ~Truthy(v) THEN ObsLoop(vals, k + 1, ls, ts)
        ELSE IF v.t # "obj" THEN Raised
        ELSE LET val == Get(v, "value") IN
            IF IsBlank(val) THEN ObsLoop(vals, k + 1, ls, ts)
            ELSE LET dt == GetDefault(v, "dateTime", JStr(<<>>)) IN
                IF dt.t # "str" THEN Raised
                ELSE LET ls2 == Append(ls, Take(dt.s, 10)) IN
                    CASE val.t = "str" ->
                            IF ParseFloat(val.s).ok
                            THEN ObsLoop(vals, k + 1, ls2, Append(ts, ParseFloat(val.s).n))
                            ELSE ObsLoop(vals, k + 1, ls2, ts)
                      [] val.t = "num" -> ObsLoop(vals, k + 1, ls2, Append(ts, val.n))
                      [] OTHER -> Raised

\* fetch_dv with line 45 losing its 'or []': a missing inner value is iterated.
fetch_dv_NoDefault(d) ==
    IF d.t # "obj" THEN Raised
    ELSE LET v1 == PyOr(Get(d, "value"), EmptyObj) IN
        IF v1.t # "obj" THEN Raised
        ELSE LET ts_arr == PyOr(Get(v1, "timeSeries"), EmptyArr) IN
            IF ~Truthy(ts_arr) THEN Returned(<<>>, <<>>)
            ELSE IF ts_arr.t # "arr" \/ ts_arr.a[1].t # "obj" THEN Raised
            ELSE LET values == Get(ts_arr.a[1], "values") IN
                IF ~Truthy(values) THEN Returned(<<>>, <<>>)
                ELSE IF values.t # "arr" \/ values.a[1].t # "obj" THEN Raised
                ELSE LET vals == Get(values.a[1], "value") IN
                    IF vals.t # "arr" THEN Raised
                    ELSE ObsLoop(vals.a, 1, <<>>, <<>>)

\* Lines 41-60 of fetch_dv, applied to the decoded response body.
fetch_dv(d) ==
    IF d.t # "obj" THEN Raised
    ELSE LET v1 == PyOr(Get(d, "value"), EmptyObj) IN
        IF v1.t # "obj" THEN Raised
        ELSE LET ts_arr == PyOr(Get(v1, "timeSeries"), EmptyArr) IN
            IF ~Truthy(ts_arr) THEN Returned(<<>>, <<>>)
            ELSE IF ts_arr.t # "arr" \/ ts_arr.a[1].t # "obj" THEN Raised
            ELSE LET values == Get(ts_arr.a[1], "values") IN
                IF ~Truthy(values) THEN Returned(<<>>, <<>>)
                ELSE IF values.t # "arr" \/ values.a[1].t # "obj" THEN Raised
                ELSE LET vals == PyOr(Get(values.a[1], "value"), EmptyArr) IN
                    IF vals.t # "arr" THEN Raised
                    ELSE ObsLoop(vals.a, 1, <<>>, <<>>)

\* ----------------------------------------------------------- load_stations
\* The input artifact is a sequence of tokens: the marker 'var stationData =',
\* white space, ';', '[', ']', ',', other text, and object literals (an object
\* literal stands in the text as the object it decodes to).
Marker == [t |-> "tok", c |-> "var stationData ="]
Sp == [t |-> "tok", c |-> " "]
Semi == [t |-> "tok", c |-> ";"]
LB == [t |-> "tok", c |-> "["]
RB == [t |-> "tok", c |-> "]"]
Comma == [t |-> "tok", c |-> ","]
Junk == [t |-> "tok", c |-> "x"]

\* str.strip() on the text: from the first to the last token that is not
\* white space.
StripTok(s) ==
    LET keep == {k \in 1..Len(s) : s[k] # Sp} IN
    IF keep = {} THEN <<>>
    ELSE SubSeq(s, CHOOSE k \in keep : \A j \in keep : k <= j,
                   CHOOSE k \in keep : \A j \in keep : j <= k)

\* text.find(prefix): the first position of the marker, 0 when there is none
Find(s) ==
    IF \E k \in 1..Len(s) : s[k] = Marker
    THEN CHOOSE k \in 1..Len(s) : s[k] = Marker /\ \A j \in 1..(k - 1) : s[j] # Marker
    ELSE 0

NotSp(tok) == tok # Sp
DropSp(s) == SelectSeq(s, NotSp)

\* json.loads(s) on an array document: '[' objects separated by ',' ']', white
\* space between the tokens ignored.  Anything else does not decode.
JsonLoads(s) ==
    LET u == DropSp(s)
        inner == SubSeq(u, 2, Len(u) - 1)
        good == /\ Len(u) >= 2 /\ u[1] = LB /\ u[Len(u)] = RB
                /\ \/ inner = <<>>
                   \/ /\ Len(inner) % 2 = 1
                      /\ \A k \in 1..Len(inner) :
                            IF k % 2 = 1 THEN inner[k].t = "obj" ELSE inner[k] = Comma
    IN  IF good
        THEN [ok |-> TRUE, v |-> [k \in 1..((Len(inner) + 1) \div 2) |-> inner[2 * k - 1]]]
        ELSE [ok |-> FALSE, v |-> <<>>]

\* load_stations without the check of line 18: a missing marker gives no stations.
load_stations_NoCheck(txt) ==
    LET idx == Find(txt) IN
    IF idx = 0 THEN [ok |-> TRUE, v |-> <<>>]
    ELSE LET s == StripTok(SubSeq(txt, idx + 1, Len(txt)))
             s2 == IF s # <<>> /\ s[Len(s)] = Semi
                   THEN StripTok(SubSeq(s, 1, Len(s) - 1)) ELSE s
         IN JsonLoads(s2)

\* Lines 16-26: ok = FALSE when RuntimeError or the decoder's error is raised.
load_stations(txt) ==
    LET idx == Find(txt) IN
    IF idx = 0 THEN [ok |-> FALSE, v |-> <<>>]
    ELSE LET s == StripTok(SubSeq(txt, idx + 1, Len(txt)))
             s2 == IF s # <<>> /\ s[Len(s)] = Semi
                   THEN StripTok(SubSeq(s, 1, Len(s) - 1)) ELSE s
         IN JsonLoads(s2)

\* ------------------------------------------------------------------- inputs
Chars(a, b) == JStr(<<a, b>>)

GoodA ==
    JObj([site_no |-> Chars("X", "1"), temp_begin |-> Chars("d", "1"),
          temp_end |-> Chars("d", "2"), lat |-> JNum(100), lon |-> JNum(200)])

With(r, k, v) == JObj([r.o EXCEPT ![k] = v])
Without(r, k) == JObj([x \in DOMAIN r.o \ {k} |-> r.o[x]])

GoodB == With(GoodA, "site_no", Chars("X", "2"))
ZeroA == With(With(GoodA, "lat", JNum(0)), "lon", JNum(0))

EligibleRecs == {GoodA, GoodB, ZeroA}

DefectRecs ==
    { Without(GoodA, "site_no"), With(GoodA, "site_no", JStr(<<>>)),
      Without(GoodA, "temp_begin"), With(GoodB, "temp_begin", JStr(<<>>)),
      With(GoodA, "temp_end", JNull), With(GoodA, "temp_end", JStr(<<>>)),
      With(GoodA, "lat", JNull), Without(GoodB, "lon") }

StationRecs == EligibleRecs \cup DefectRecs

StationLists == UNION {[1..n -> StationRecs] : n \in 0..MaxStations}

RECURSIVE Items(_)
Items(L) ==
    IF L = <<>> THEN <<>>
    ELSE IF Len(L) = 1 THEN L
    ELSE <<Head(L), Comma, Sp>> \o Items(Tail(L))

ArrText(L) == <<LB>> \o Items(L) \o <<RB>>

\* The input artifacts: two well-formed ones, one without the marker, and four
\* whose text after the marker does not decode.
Texts(L) ==
    { <<Junk, Sp, Marker, Sp>> \o ArrText(L) \o <<Semi, Sp>>,
      <<Marker>> \o ArrText(L),
      <<Junk, Sp>> \o ArrText(L) \o <<Semi>>,
      <<Marker, Sp, LB>> \o Items(L) \o <<Semi>>,
      <<Marker, Sp>> \o ArrText(L) \o <<Semi, Semi>>,
      <<Marker, Sp>> \o ArrText(L) \o <<Semi, Sp, Junk>>,
      <<Junk, Marker, Sp>> }

\* Observations of a response.
T1 == <<"2", "0", "2", "0", "-", "0", "1", "-", "0", "1", "T", "0", "0", ":", "0", "0", ":", "0", "0">>
T2 == <<"2", "0", "2", "0", "-", "0", "1", "-", "0", "2", "T", "0", "0", ":", "0", "0", ":", "0", "0">>
T3 == <<"2", "0", "2", "0", "-", "0", "1", "-", "0", "3", "T", "0", "0", ":", "0", "0", ":", "0", "0">>

Obs(val, dt) == JObj([value |-> val, dateTime |-> JStr(dt)])

ObsGood == Obs(JStr(<<"5", ".", "5">>), T1)
ObsBlank == Obs(JStr(<<>>), T2)
ObsIce == Obs(JStr(<<"I", "c", "e">>), T3)
ObsNeg == Obs(JStr(<<"-", "3", ".", "2", "5">>), T2)

ObsKinds ==
    { ObsGood, ObsBlank, ObsIce,
      Obs(JNull, T2), Obs(JStr(<<" ">>), T2), Obs(JStr(<<" ", " ">>), T3),
      JObj([dateTime |-> JStr(T2)]), EmptyObj,
      JObj([value |-> JStr(<<" ", "1", "2">>), dateTime |-> JStr(<<"2", "0", "2", "0">>)]),
      JObj([value |-> JNum(700)]),
      JObj([value |-> JStr(<<"4">>), dateTime |-> JNull]) }

Body(ts) == JObj([value |-> JObj([timeSeries |-> ts])])
Series(obs) == Body(JArr(<<JObj([values |-> JArr(<<JObj([value |-> JArr(obs)])>>)])>>))

\* Bodies whose nested path value.timeSeries[0].values[0].value is missing or
\* empty at some step.
MissingPath ==
    { EmptyObj, JObj([value |-> JNull]), JObj([value |-> EmptyObj]),
      Body(JNull), Body(EmptyArr),
      Body(JArr(<<EmptyObj>>)), Body(JArr(<<JObj([values |-> EmptyArr])>>)),
      Body(JArr(<<JObj([values |-> JArr(<<EmptyObj>>)])>>)),
      Body(JArr(<<JObj([values |-> JArr(<<JObj([value |-> JNull])>>)])>>)),
      Series(<<>>) }

\* Bodies that decode but are not of the service's shape.
Malformed == { Body(JArr(<<JNull>>)), Series(<<JNum(100)>>) }

ObsLists == UNION {[1..n -> ObsKinds] : n \in 1..MaxObs}

AllResponses == MissingPath \cup Malformed \cup {Series(o) : o \in ObsLists}

AllTexts == UNION {Texts(L) : L \in StationLists}

\* The bodies served during a whole run.
MainResponses ==
    { Body(EmptyArr), Series(<<ObsGood, ObsBlank>>), Series(<<ObsIce>>),
      Series(<<ObsNeg>>), Body(JArr(<<JNull>>)) }

\* --------------------------------------------------------------------- main
\* The record of what the run did, in order: the requests issued, their
\* outcomes, what was stored, the pauses and the write (k is the position of
\* the station record in the list, 0 where none applies).
Ev(e, k) == [e |-> e, k |-> k]

NotWritten == [written |-> FALSE, cache |-> EmptyMap, no_dv |-> <<>>]

\* The filter with truthiness tests on the coordinates: 0 is excluded.
Eligible_TruthyCoords(s) ==
    /\ Truthy(Get(s, "site_no"))
    /\ Truthy(Get(s, "temp_begin")) /\ Truthy(Get(s, "temp_end"))
    /\ Truthy(Get(s, "lat")) /\ Truthy(Get(s, "lon"))

\* Lines 69-82: the record is fetched.
Eligible(s) ==
    /\ Truthy(Get(s, "site_no"))
    /\ Truthy(Get(s, "temp_begin")) /\ Truthy(Get(s, "temp_end"))
    /\ Get(s, "lat") # JNull /\ Get(s, "lon") # JNull

\* cache[site] = entry
Put(c, site, entry) ==
    [k \in DOMAIN c \cup {site} |-> IF k = site THEN entry ELSE c[k]]

\* load_stations and fetch_dv over the inputs of the model, computed once.
LoadTable == [t \in AllTexts |-> load_stations(t)]
FetchTable == [d \in MainResponses \cup AllResponses |-> fetch_dv(d)]

\* text is the input artifact; data is the body decoded by the latest request
\* (null when there is none); labels and temps are main's locals.
Init ==
    /\ text \in AllTexts
    /\ stations = <<>>
    /\ i = 0
    /\ pc = "start"
    /\ data = JNull
    /\ labels = <<>>
    /\ temps = <<>>
    /\ cache = EmptyMap
    /\ no_dv = <<>>
    /\ out = NotWritten
    /\ events = <<>>

\* Lines 64-66: stations = load_stations(); an exception ends the run.
Load ==
    /\ pc = "start"
    /\ LET r == LoadTable[text] IN
        \/ /\ ~r.ok
           /\ pc' = "aborted"
           /\ UNCHANGED <<stations, i>>
        \/ /\ r.ok
           /\ stations' = r.v
           /\ i' = 1
           /\ pc' = "loop"
    /\ UNCHANGED <<text, data, labels, temps, cache, no_dv, out, events>>

\* Lines 68-82: the record at i fails the filter.
Skip ==
    /\ pc = "loop"
    /\ i <= Len(stations)
    /\ ~Eligible(stations[i])
    /\ i' = i + 1
    /\ events' = Append(events, Ev("excluded", i))
    /\ UNCHANGED <<text, stations, pc, data, labels, temps, cache, no_dv, out>>

\* FetchCall with the handler of a failed request recording "no data".
FetchCall_ErrorAsNoData ==
    /\ pc = "loop"
    /\ i <= Len(stations)
    /\ Eligible(stations[i])
    /\ \/ /\ i' = i + 1
          /\ events' = events \o <<Ev("fetch", i), Ev("error", i)>>
          /\ data' = JNull
          /\ no_dv' = Append(no_dv, Get(stations[i], "site_no"))
          /\ UNCHANGED pc
       \/ /\ data' \in MainResponses
          /\ pc' = "extract"
          /\ events' = Append(events, Ev("fetch", i))
          /\ UNCHANGED <<i, no_dv>>
    /\ UNCHANGED <<text, stations, labels, temps, cache, out>>

\* Lines 84-89 and 36-39: the request for the record at i.  urlopen or the
\* decoding of the body raises, or the body is decoded.
FetchCall ==
    /\ pc = "loop"
    /\ i <= Len(stations)
    /\ Eligible(stations[i])
    /\ \/ /\ i' = i + 1
          /\ events' = events \o <<Ev("fetch", i), Ev("error", i)>>
          /\ data' = JNull
          /\ UNCHANGED pc
       \/ /\ data' \in MainResponses
          /\ pc' = "extract"
          /\ events' = Append(events, Ev("fetch", i))
          /\ UNCHANGED i
    /\ UNCHANGED <<text, stations, labels, temps, cache, no_dv, out>>

\* Extract with the handler retrying the record instead of moving on.
Extract_Retry ==
    /\ pc = "extract"
    /\ LET r == FetchTable[data] IN
        \/ /\ r.raised
           /\ pc' = "loop"
           /\ events' = Append(events, Ev("error", i))
           /\ UNCHANGED <<i, labels, temps>>
        \/ /\ ~r.raised
           /\ labels' = r.labels
           /\ temps' = r.temps
           /\ pc' = "store"
           /\ events' = Append(events, Ev("ok", i))
           /\ UNCHANGED i
    /\ UNCHANGED <<text, stations, data, cache, no_dv, out>>

\* Lines 41-60 and 86-89: the rest of fetch_dv on the decoded body.
Extract ==
    /\ pc = "extract"
    /\ LET r == FetchTable[data] IN
        \/ /\ r.raised
           /\ i' = i + 1
           /\ pc' = "loop"
           /\ events' = Append(events, Ev("error", i))
           /\ UNCHANGED <<labels, temps>>
        \/ /\ ~r.raised
           /\ labels' = r.labels
           /\ temps' = r.temps
           /\ pc' = "store"
           /\ events' = Append(events, Ev("ok", i))
           /\ UNCHANGED i
    /\ UNCHANGED <<text, stations, data, cache, no_dv, out>>

\* Lines 91-94
Store ==
    /\ pc = "store"
    /\ LET site == Get(stations[i], "site_no") IN
        \/ /\ labels # <<>>
           /\ cache' = Put(cache, site, [labels |-> labels, temps |-> temps])
           /\ events' = Append(events, Ev("cache", i))
           /\ UNCHANGED no_dv
        \/ /\ labels = <<>>
           /\ no_dv' = Append(no_dv, site)
           /\ events' = Append(events, Ev("nodv", i))
           /\ UNCHANGED cache
    /\ pc' = "sleep"
    /\ UNCHANGED <<text, stations, i, data, labels, temps, out>>

\* Line 95: time.sleep(0.2), then the next record.
Sleep ==
    /\ pc = "sleep"
    /\ events' = Append(events, Ev("pause", 0))
    /\ i' = i + 1
    /\ pc' = "loop"
    /\ UNCHANGED <<text, stations, data, labels, temps, cache, no_dv, out>>

\* Lines 97-103: the loop is over, the output artifact is written.
Write ==
    /\ pc = "loop"
    /\ i > Len(stations)
    /\ out' = [written |-> TRUE, cache |-> cache, no_dv |-> no_dv]
    /\ events' = Append(events, Ev("write", 0))
    /\ pc' = "done"
    /\ UNCHANGED <<text, stations, i, data, labels, temps, cache, no_dv>>

Next == Load \/ Skip \/ FetchCall \/ Extract \/ Store \/ Sleep \/ Write

Spec == Init /\ [][Next]_vars

\* The run is a sequential program: a step that can be taken is taken.
FairSpec == Spec /\ WF_vars(Next)

\* fetch_dv on its own: one eligible station, the body just decoded, every
\* body of AllResponses.
InitFetch ==
    /\ text = <<Marker, LB, GoodA, RB>>
    /\ stations = <<GoodA>>
    /\ i = 1
    /\ pc = "extract"
    /\ data \in AllResponses
    /\ labels = <<>>
    /\ temps = <<>>
    /\ cache = EmptyMap
    /\ no_dv = <<>>
    /\ out = NotWritten
    /\ events = <<Ev("fetch", 1)>>

NextFetch == Extract \/ Store

SpecFetch == InitFetch /\ [][NextFetch]_vars

\* ------------------------------------------------------------------ claims
Keys == DOMAIN cache
NoDvSet == {no_dv[j] : j \in 1..Len(no_dv)}
SiteOf(k) == Get(stations[k], "site_no")
Happened(e, k) == \E j \in 1..Len(events) : events[j] = Ev(e, k)
LastEv == IF events = <<>> THEN Ev("none", 0) ELSE events[Len(events)]

\* C1: the two sequences fetch_dv returns have equal length, and so has every
\* entry main stores in the cache, whatever the observations are.
C1_EqualLengths ==
    /\ pc = "store" => Len(labels) = Len(temps)
    /\ \A s \in Keys : Len(cache[s].labels) = Len(cache[s].temps)

\* The reference extraction of C2: an observation is kept when its value is
\* present, not null, not "" or " ", and parses as a number.
RefKept(o) ==
    /\ o.t = "obj" /\ "value" \in DOMAIN o.o
    /\ o.o.value \notin {JNull, JStr(<<>>), JStr(<<" ">>)}
    /\ \/ o.o.value.t = "num"
       \/ o.o.value.t = "str" /\ ParseFloat(o.o.value.s).ok

RefLabel(o) == Take(GetDefault(o, "dateTime", JStr(<<>>)).s, 10)
RefTemp(o) == IF o.o.value.t = "num" THEN o.o.value.n ELSE ParseFloat(o.o.value.s).n

RECURSIVE RefLabels(_)
RefLabels(obs) ==
    IF obs = <<>> THEN <<>>
    ELSE IF RefKept(Head(obs)) THEN <<RefLabel(Head(obs))>> \o RefLabels(Tail(obs))
    ELSE RefLabels(Tail(obs))

RECURSIVE RefTemps(_)
RefTemps(obs) ==
    IF obs = <<>> THEN <<>>
    ELSE IF RefKept(Head(obs)) THEN <<RefTemp(Head(obs))>> \o RefTemps(Tail(obs))
    ELSE RefTemps(Tail(obs))

\* C2: what fetch_dv returns is the reference extraction of the observations
\* of value.timeSeries[0].values[0].value: the labels and the values of the
\* kept observations, in order, and nothing for a dropped one.
C2_ReferenceExtraction ==
    \A obs \in ObsLists :
        pc = "store" /\ data = Series(obs) =>
            labels = RefLabels(obs) /\ temps = RefTemps(obs)

\* C3: the keys of the cache and the identifiers of the no-data list are
\* disjoint in every state of a run.
C3_Disjoint == Keys \cap NoDvSet = {}

\* C8: any two fetch requests of a run are separated by a pause.
C8_PauseBetweenFetches ==
    \A a, b \in 1..Len(events) :
        a < b /\ events[a].e = "fetch" /\ events[b].e = "fetch" =>
            \E m \in (a + 1)..(b - 1) : events[m].e = "pause"

\* C9: once an entry is stored for an identifier, no later step replaces or
\* changes it.
C9_AddedOnce ==
    [][\A s \in Keys : s \in DOMAIN cache' /\ cache'[s] = cache[s]]_vars

\* A field of a record is absent (or null), or absent or the empty string.
Absent(r, k) == k \notin DOMAIN r.o \/ r.o[k] = JNull
Empty(r, k) == Absent(r, k) \/ r.o[k] = JStr(<<>>)

\* The record lacks a non-empty site_no, a truthy temp_begin, a truthy
\* temp_end, a non-null lat or a non-null lon.
Lacks(r) ==
    \/ Empty(r, "site_no") \/ Empty(r, "temp_begin") \/ Empty(r, "temp_end")
    \/ Absent(r, "lat") \/ Absent(r, "lon")

\* C4 as stated: a record that lacks one of the five fields is never fetched
\* and its identifier is never in the cache or the no-data list; a record that
\* lacks none (lat or lon may be 0) is fetched.
C4_Original ==
    /\ \A k \in 1..Len(stations) :
          Lacks(stations[k]) =>
              /\ ~Happened("fetch", k)
              /\ SiteOf(k) \notin Keys /\ SiteOf(k) \notin NoDvSet
    /\ \A k \in 1..Len(stations) :
          k < i /\ ~Lacks(stations[k]) => Happened("fetch", k)

\* C4 (amended): a record that lacks one of the five fields is never fetched
\* and stores nothing: every identifier in the cache or the no-data list was
\* put there for a record that lacks none of them; a record that lacks none
\* (lat or lon may be 0) is fetched.
C4_Excluded ==
    /\ \A k \in 1..Len(stations) :
          Lacks(stations[k]) =>
              ~Happened("fetch", k) /\ ~Happened("cache", k) /\ ~Happened("nodv", k)
    /\ \A id \in Keys :
          \E k \in 1..Len(stations) :
              ~Lacks(stations[k]) /\ SiteOf(k) = id /\ Happened("cache", k)
    /\ \A j \in 1..Len(no_dv) :
          \E k \in 1..Len(stations) :
              ~Lacks(stations[k]) /\ SiteOf(k) = no_dv[j] /\ Happened("nodv", k)
    /\ \A k \in 1..Len(stations) :
          k < i /\ ~Lacks(stations[k]) => Happened("fetch", k)

C4_Witness ==
    /\ pc = "done"
    /\ \E k, k2 \in 1..Len(stations) :
          /\ Lacks(stations[k]) /\ Happened("excluded", k)
          /\ Get(stations[k2], "lat") = JNum(0) /\ Happened("cache", k2)

\* The step in which the fetch for the record at i raises.
ErrStep == Len(events') > Len(events) /\ events'[Len(events')].e = "error"
ErrSeen == \E j \in 1..Len(events) : events[j].e = "error"

\* The run is over: every record was handled and the artifact holds the cache
\* and the no-data list.
Finished ==
    /\ pc = "done"
    /\ out = [written |-> TRUE, cache |-> cache, no_dv |-> no_dv]
    /\ \A k \in 1..Len(stations) : Happened("excluded", k) \/ Happened("fetch", k)

\* C5 as stated: a fetch that raises leaves the cache and the no-data list
\* unchanged, the station is in neither, main goes on with the next record, and
\* the artifact is still written.
C5_Original ==
    /\ [][ErrStep =>
            /\ cache' = cache /\ no_dv' = no_dv
            /\ SiteOf(i) \notin DOMAIN cache'
            /\ SiteOf(i) \notin {no_dv'[j] : j \in 1..Len(no_dv')}
            /\ i' = i + 1 /\ pc' = "loop"]_vars
    /\ (ErrSeen ~> Finished)

\* C5 (amended): a fetch that raises leaves the cache, the no-data list and
\* the artifact unchanged and nothing is ever stored for that record (its
\* identifier is in the cache or the no-data list only if another record with
\* the same site_no put it there); main goes on with the next record, handles
\* every record, and the artifact is still written.
C5_ErrorSkipsRecord ==
    /\ [][ErrStep =>
            /\ cache' = cache /\ no_dv' = no_dv /\ out' = out
            /\ i' = i + 1 /\ pc' = "loop"]_vars
    /\ [](\A k \in 1..Len(stations) :
            Happened("error", k) => ~Happened("cache", k) /\ ~Happened("nodv", k))
    /\ (ErrSeen ~> Finished)

C5_Witness ==
    /\ Finished
    /\ \E k, k2 \in 1..Len(stations) :
          k < k2 /\ Happened("error", k) /\ Happened("cache", k2)

\* C6: a body whose nested path is missing or empty at some step makes
\* fetch_dv return two empty sequences without raising, and main appends the
\* identifier to the no-data list and does not add it to the cache.
C6_MissingPathNoData ==
    data \in MissingPath =>
        /\ LastEv.e # "error"
        /\ pc = "store" => labels = <<>> /\ temps = <<>> /\ LastEv = Ev("ok", i)
        /\ pc = "sleep" =>
              /\ LastEv = Ev("nodv", i)
              /\ no_dv # <<>> /\ no_dv[Len(no_dv)] = SiteOf(i)
              /\ ~Happened("cache", i)

C6_Witness ==
    /\ pc = "sleep"
    /\ data = Body(JArr(<<JObj([values |-> JArr(<<JObj([value |-> JNull])>>)])>>))
    /\ no_dv = <<SiteOf(i)>>

\* The input artifact has no marker, or the text after the first marker
\* (white space and one trailing ';' removed) is not a JSON document.
NoMarker(t) == \A k \in 1..Len(t) : t[k] # Marker
Remainder(t) ==
    LET k == CHOOSE j \in 1..Len(t) : t[j] = Marker /\ \A m \in 1..(j - 1) : t[m] # Marker
        r == StripTok(SubSeq(t, k + 1, Len(t)))
    IN  IF r # <<>> /\ r[Len(r)] = Semi THEN StripTok(SubSeq(r, 1, Len(r) - 1)) ELSE r
BadInput(t) == NoMarker(t) \/ ~JsonLoads(Remainder(t)).ok

\* C7: with such an input artifact the run aborts before any fetch request
\* and without writing the output artifact.
C7_AbortBeforeFetch ==
    BadInput(text) /\ pc # "start" =>
        /\ pc = "aborted"
        /\ events = <<>>
        /\ out = NotWritten

C7_Witness == pc = "aborted" /\ NoMarker(text)

\* What happened to the record at k, in order.
PathOf(k) ==
    LET p == SelectSeq(events, LAMBDA ev : ev.k = k)
    IN  [j \in 1..Len(p) |-> p[j].e]

FinalPaths ==
    { <<"excluded">>, <<"fetch", "error">>,
      <<"fetch", "ok", "cache">>, <<"fetch", "ok", "nodv">> }

ForwardPaths == FinalPaths \cup { <<>>, <<"fetch">>, <<"fetch", "ok">> }

\* C10: every record moves forward only (pending, excluded or fetched, failed
\* or ok, data or no data); records are handled in input order, an eligible
\* record is fetched exactly once and never again; the artifact is written
\* once, as the last step, when every record is in a final state.
C10_ForwardOnly ==
    /\ \A k \in 1..Len(stations) :
          /\ PathOf(k) \in ForwardPaths
          /\ Lacks(stations[k]) => PathOf(k) \in {<<>>, <<"excluded">>}
          /\ ~Lacks(stations[k]) => PathOf(k) # <<"excluded">>
    /\ \A a, b \in 1..Len(events) :
          a < b /\ events[a].k # 0 /\ events[b].k # 0 => events[a].k <= events[b].k
    /\ Cardinality({j \in 1..Len(events) : events[j].e = "write"}) <= 1
    /\ Happened("write", 0) =>
          /\ LastEv = Ev("write", 0)
          /\ out.written
          /\ \A k \in 1..Len(stations) : PathOf(k) \in FinalPaths
    /\ out.written => Happened("write", 0)
    /\ pc = "done" => Happened("write", 0)

C10_Witness ==
    /\ pc = "done"
    /\ \E k, k2 \in 1..Len(stations) : Happened("error", k) /\ Happened("nodv", k2)

====
